---- MODULE Spec2Model ----
(***************************************************************************)
(* Cashback chooser: the App component's state and handlers (App.tsx),     *)
(* the DataTable pipeline (dedup, top-N selection, matrix, winners) and    *)
(* its two exports, and the outcomes of the Gemini service calls.          *)
(*                                                                         *)
(* A JavaScript string is modelled as the sequence of its UTF-16 code      *)
(* units, so trim, toLowerCase, includes, template concatenation and the   *)
(* default Array.prototype.sort order are computed, not assumed.           *)
(* An optional number (number | undefined) is <<>> or <<n>>.               *)
(* CashbackEntry.id, originalText and BankConfig.color are never read by   *)
(* the modelled code and are left out of the records.                      *)
(***************************************************************************)
EXTENDS Integers, Sequences, FiniteSets, TLC

VARIABLES
    data,               \* App: useState<CashbackEntry[]>
    bankConfigs,        \* App: useState<Record<string, BankConfig>>
    status,             \* App: useState<ProcessingStatus>
    userComment,        \* App: useState<string>
    refinementComment,  \* App: useState<string>
    isRefining,         \* App: useState<boolean>
    upload,             \* the running handleFilesSelected call, if any
    refine,             \* the running handleRefineData call, or how the last one settled
    oracleLog,          \* what the extraction calls of the last upload returned
    clipboard,          \* text last given to navigator.clipboard.writeText
    download            \* content of the last downloaded cashback_pamyatka.txt

vars == <<data, bankConfigs, status, userComment, refinementComment, isRefining,
          upload, refine, oracleLog, clipboard, download>>

-----------------------------------------------------------------------------
(* String literals of the source, as UTF-16 code units *)

\* 'Tinkoff'
AliasTinkoff == <<84, 105, 110, 107, 111, 102, 102>>
\* 'Сбер'
AliasSber == <<1057, 1073, 1077, 1088>>
\* 'Альфа'
AliasAlfa == <<1040, 1083, 1100, 1092, 1072>>
\* 'ВТБ'
AliasVTB == <<1042, 1058, 1041>>
\* 'Яндекс'
AliasYandex == <<1071, 1085, 1076, 1077, 1082, 1089>>

\* 'Sber'
Sber == <<83, 98, 101, 114>>
\* 'T-Bank'
TBank == <<84, 45, 66, 97, 110, 107>>
\* 'Alfa'
Alfa == <<65, 108, 102, 97>>
\* 'VTB'
VTB == <<86, 84, 66>>
\* 'Yandex'
Yandex == <<89, 97, 110, 100, 101, 120>>
\* 'Other' (the fallback label the service layer writes, geminiService)
Other == <<79, 116, 104, 101, 114>>

\* Object.keys(DEFAULT_CONFIGS): insertion order of the literal
BankOrder == <<Sber, TBank, Alfa, VTB, Yandex>>

Banks == {BankOrder[i] : i \in 1..Len(BankOrder)}

DEFAULT_CONFIGS ==
    [b \in Banks |->
        [enabled |-> TRUE,
         limit   |-> IF b \in {TBank, VTB} THEN 4 ELSE 5]]

-----------------------------------------------------------------------------
(* String.prototype methods *)

\* WhiteSpace and LineTerminator code units, as String.prototype.trim strips them
IsWhiteSpace(c) ==
    c \in ({9, 10, 11, 12, 13, 32, 160, 5760, 8232, 8233, 8239, 8287, 12288, 65279}
            \cup (8192..8202))

\* toLowerCase on one code unit: Basic Latin, Latin-1 and Cyrillic capitals
ToLowerCaseUnit(c) ==
    IF c \in 65..90 \/ c \in 1040..1071 \/ (c \in 192..222 /\ c # 215) THEN c + 32
    ELSE IF c \in 1024..1039 THEN c + 80
    ELSE c

ToLowerCase(s) == [i \in 1..Len(s) |-> ToLowerCaseUnit(s[i])]

RECURSIVE TrimStart(_)
TrimStart(s) ==
    IF s = <<>> THEN s
    ELSE IF IsWhiteSpace(Head(s)) THEN TrimStart(Tail(s))
    ELSE s

RECURSIVE TrimEnd(_)
TrimEnd(s) ==
    IF s = <<>> THEN s
    ELSE IF IsWhiteSpace(s[Len(s)]) THEN TrimEnd(SubSeq(s, 1, Len(s) - 1))
    ELSE s

Trim(s) == TrimEnd(TrimStart(s))

Includes(s, sub) ==
    \E i \in 1..(Len(s) - Len(sub) + 1) : SubSeq(s, i, i + Len(sub) - 1) = sub

\* a < b in the order of the default Array.prototype.sort (UTF-16 code units)
StrLess(a, b) ==
    \/ /\ Len(a) < Len(b)
       /\ SubSeq(b, 1, Len(a)) = a
    \/ \E i \in 1..Len(a) :
          /\ i <= Len(b)
          /\ SubSeq(a, 1, i - 1) = SubSeq(b, 1, i - 1)
          /\ a[i] < b[i]

RECURSIVE DigitsOf(_)
DigitsOf(n) ==
    IF n < 10 THEN <<48 + n>>
    ELSE DigitsOf(n \div 10) \o <<48 + (n % 10)>>

\* `${n}` for an integer n
NumToStr(n) == IF n < 0 THEN <<45>> \o DigitsOf(0 - n) ELSE DigitsOf(n)

RECURSIVE Join(_, _)
Join(parts, sep) ==
    IF parts = <<>> THEN <<>>
    ELSE IF Len(parts) = 1 THEN parts[1]
    ELSE parts[1] \o sep \o Join(Tail(parts), sep)

-----------------------------------------------------------------------------
(* DataTable: the useMemo pipeline *)

ActiveBanks(cfg) == SelectSeq(BankOrder, LAMBDA b : cfg[b].enabled)

NormalizeBank(bankName) ==
    LET b1 == IF Includes(bankName, AliasTinkoff) THEN TBank ELSE bankName
        b2 == IF Includes(b1, AliasSber) THEN Sber ELSE b1
        b3 == IF Includes(b2, AliasAlfa) THEN Alfa ELSE b2
        b4 == IF Includes(b3, AliasVTB) THEN VTB ELSE b3
        b5 == IF Includes(b4, AliasYandex) THEN Yandex ELSE b4
    IN  b5

\* `${a}|${b}`
Key(a, b) == a \o <<124>> \o b

\* A Map is the sequence of its [key, value] pairs in insertion order.
MapHas(m, k) == \E i \in 1..Len(m) : m[i].key = k

MapGet(m, k) == m[CHOOSE i \in 1..Len(m) : m[i].key = k].value

MapSet(m, k, v) ==
    IF MapHas(m, k)
    THEN [i \in 1..Len(m) |-> IF m[i].key = k THEN [key |-> k, value |-> v] ELSE m[i]]
    ELSE Append(m, [key |-> k, value |-> v])

\* mutant: an entry of equal percentage replaces the kept one
DedupStepLastWins(m, entry) ==
    LET normCat  == ToLowerCase(Trim(entry.category))
        normBank == NormalizeBank(entry.bankName)
        key      == Key(normBank, normCat)
    IN  IF ~MapHas(m, key) \/ entry.percentage >= MapGet(m, key).percentage
        THEN MapSet(m, key, [bankName   |-> normBank,
                             category   |-> Trim(entry.category),
                             percentage |-> entry.percentage])
        ELSE m

DedupStep(m, entry) ==
    LET normCat  == ToLowerCase(Trim(entry.category))
        normBank == NormalizeBank(entry.bankName)
        key      == Key(normBank, normCat)
    IN  IF ~MapHas(m, key) \/ entry.percentage > MapGet(m, key).percentage
        THEN MapSet(m, key, [bankName   |-> normBank,
                             category   |-> Trim(entry.category),
                             percentage |-> entry.percentage])
        ELSE m

RECURSIVE UniqueEntries(_)
UniqueEntries(d) ==
    IF d = <<>> THEN <<>>
    ELSE DedupStep(UniqueEntries(SubSeq(d, 1, Len(d) - 1)), d[Len(d)])

CleanData(d) ==
    LET m == UniqueEntries(d) IN [i \in 1..Len(m) |-> m[i].value]

\* Array.prototype.sort((a, b) => b.percentage - a.percentage): stable
RECURSIVE InsertDesc(_, _)
InsertDesc(sorted, e) ==
    IF sorted = <<>> THEN <<e>>
    ELSE IF e.percentage - Head(sorted).percentage > 0
         THEN <<e>> \o sorted
         ELSE <<Head(sorted)>> \o InsertDesc(Tail(sorted), e)

RECURSIVE SortByPercentageDesc(_)
SortByPercentageDesc(s) ==
    IF s = <<>> THEN <<>>
    ELSE InsertDesc(SortByPercentageDesc(SubSeq(s, 1, Len(s) - 1)), s[Len(s)])

\* bankConfigs[bank]?.limit || 5
EffectiveLimit(cfg, bank) == IF cfg[bank].limit = 0 THEN 5 ELSE cfg[bank].limit

\* Array.prototype.slice(0, n) for n >= 0
Slice0(s, n) == SubSeq(s, 1, IF n < Len(s) THEN n ELSE Len(s))

TopEntries(clean, cfg, bank) ==
    LET bankEntries == SelectSeq(clean, LAMBDA e : e.bankName = bank)
    IN  Slice0(SortByPercentageDesc(bankEntries), EffectiveLimit(cfg, bank))

BankSelections(clean, cfg) ==
    LET active == ActiveBanks(cfg)
    IN  UNION { LET top == TopEntries(clean, cfg, active[j])
                IN  {Key(active[j], ToLowerCase(top[i].category)) : i \in 1..Len(top)}
                : j \in 1..Len(active) }

\* mutant: the entries of disabled banks are kept
RelevantDataAllBanks(clean, cfg) == clean

RelevantData(clean, cfg) ==
    LET active == ActiveBanks(cfg)
    IN  SelectSeq(clean, LAMBDA e : \E j \in 1..Len(active) : active[j] = e.bankName)

\* mutant: allCategories.sort().reverse()
RECURSIVE SortStringsDescending(_)
SortStringsDescending(S) ==
    IF S = {} THEN <<>>
    ELSE LET greatest == CHOOSE a \in S : \A b \in S \ {a} : StrLess(b, a)
         IN  <<greatest>> \o SortStringsDescending(S \ {greatest})

RECURSIVE SortStrings(_)
SortStrings(S) ==
    IF S = {} THEN <<>>
    ELSE LET least == CHOOSE a \in S : \A b \in S \ {a} : StrLess(a, b)
         IN  <<least>> \o SortStrings(S \ {least})

AllCategories(clean, cfg) ==
    LET rel == RelevantData(clean, cfg)
    IN  SortStrings({rel[i].category : i \in 1..Len(rel)})

\* matrixMap.get(key): the value set last for the key, or undefined
MatrixMapGet(clean, key) ==
    LET hits == {i \in 1..Len(clean) : Key(clean[i].bankName, clean[i].category) = key}
    IN  IF hits = {} THEN <<>>
        ELSE <<clean[CHOOSE i \in hits : \A k \in hits : k <= i].percentage>>

MatrixOf(d, cfg) ==
    LET clean  == CleanData(d)
        sel    == BankSelections(clean, cfg)
        active == ActiveBanks(cfg)
        cats   == AllCategories(clean, cfg)
    IN  [r \in 1..Len(cats) |->
            [name   |-> cats[r],
             values |-> [j \in 1..Len(active) |->
                            [bank       |-> active[j],
                             percentage |-> MatrixMapGet(clean, Key(active[j], cats[r])),
                             isSelected |-> Key(active[j], ToLowerCase(cats[r])) \in sel]]]]

\* The memoised values of the current render
matrix == MatrixOf(data, bankConfigs)

targetBanks == ActiveBanks(bankConfigs)

-----------------------------------------------------------------------------
(* DataTable: the rendered table body *)

MaxOf(S) == CHOOSE m \in S : \A x \in S : x <= m

\* maxActivePercent of the table body
RenderMaxActivePercent(row) ==
    LET activeValues == SelectSeq(row.values,
                                  LAMBDA v : v.isSelected /\ v.percentage # <<>>)
    IN  IF Len(activeValues) > 0
        THEN MaxOf({activeValues[i].percentage[1] : i \in 1..Len(activeValues)})
        ELSE -1

\* mutant: the selection flag of the cell is not looked at
RenderIsWinnerAnyCell(row, cell) ==
    cell.percentage = <<RenderMaxActivePercent(row)>>

RenderIsWinner(row, cell) ==
    cell.isSelected /\ cell.percentage = <<RenderMaxActivePercent(row)>>

\* which of the four cell styles the cell gets
CellClass(row, cell) ==
    IF cell.percentage # <<>>
    THEN IF RenderIsWinner(row, cell) THEN "winner"
         ELSE IF cell.isSelected THEN "selected"
         ELSE "offer"
    ELSE "default"

\* {hasValue ? `${cell.percentage}%` : '-'}
CellText(cell) ==
    IF cell.percentage # <<>> THEN NumToStr(cell.percentage[1]) \o <<37>> ELSE <<45>>

-----------------------------------------------------------------------------
(* DataTable: the exports *)

\* 'Категория'
CategoryLabel == <<1050, 1072, 1090, 1077, 1075, 1086, 1088, 1080, 1103>>

\* v.percentage ? `${v.percentage}%` : ''
ClipCell(v) ==
    IF v.percentage # <<>> /\ v.percentage[1] # 0
    THEN NumToStr(v.percentage[1]) \o <<37>>
    ELSE <<>>

ClipRow(row) ==
    row.name \o <<9>> \o Join([j \in 1..Len(row.values) |-> ClipCell(row.values[j])], <<9>>)

ClipboardText(m, banks) ==
    LET header == CategoryLabel \o <<9>> \o Join(banks, <<9>>)
        rows   == Join([r \in 1..Len(m) |-> ClipRow(m[r])], <<10>>)
    IN  header \o <<10>> \o rows

\* maxActivePercent of downloadCheatSheet
SheetMaxActivePercent(row) ==
    LET activeValues == SelectSeq(row.values,
                                  LAMBDA v : v.isSelected /\ v.percentage # <<>>)
    IN  IF Len(activeValues) > 0
        THEN MaxOf({activeValues[i].percentage[1] : i \in 1..Len(activeValues)})
        ELSE -1

\* mutant: the selection flag of the cells is not looked at
SheetWinnersAnyCell(row) ==
    SelectSeq(row.values, LAMBDA v : v.percentage = <<SheetMaxActivePercent(row)>>)

SheetWinners(row) ==
    SelectSeq(row.values,
              LAMBDA v : v.isSelected /\ v.percentage = <<SheetMaxActivePercent(row)>>)

\* `${w.bank} (${w.percentage}%)`
WinnerItem(w) == w.bank \o <<32, 40>> \o NumToStr(w.percentage[1]) \o <<37, 41>>

\* ' или '
OrConnector == <<32, 1080, 1083, 1080, 32>>

\* `✅ ${row.name}: ${winnerText}`
SheetLine(row) ==
    LET winners == SheetWinners(row)
    IN  <<9989, 32>> \o row.name \o <<58, 32>>
        \o Join([i \in 1..Len(winners) |-> WinnerItem(winners[i])], OrConnector)

RECURSIVE SheetBody(_)
SheetBody(m) ==
    IF m = <<>> THEN <<>>
    ELSE IF Len(SheetWinners(Head(m))) > 0
         THEN <<SheetLine(Head(m))>> \o SheetBody(Tail(m))
         ELSE SheetBody(Tail(m))

\* the two heading lines and the date line `📅 ${date}\n`
SheetHead(date) ==
    << <<55357, 56523, 32, 1055, 1040, 1052, 1071, 1058, 1050, 1040, 32, 1055, 1054,
         32, 1050, 1069, 1064, 1041, 1069, 1050, 1059>>,
       <<61, 61, 61, 61, 61, 61, 61, 61, 61, 61, 61, 61, 61, 61, 61, 61, 61, 61, 61, 61, 61>>,
       <<55357, 56517, 32>> \o date \o <<10>> >>

\* "\n=====================" and the closing line
SheetFoot ==
    << <<10, 61, 61, 61, 61, 61, 61, 61, 61, 61, 61, 61, 61, 61, 61, 61, 61, 61, 61, 61,
         61, 61>>,
       <<1057, 1075, 1077, 1085, 1077, 1088, 1080, 1088, 1086, 1074, 1072, 1085, 1086, 32,
         65, 73, 32, 67, 97, 115, 104, 97, 99, 107, 101, 114>> >>

\* the lines array of downloadCheatSheet, before lines.join('\n')
CheatSheetLines(m, date) == SheetHead(date) \o SheetBody(m) \o SheetFoot

-----------------------------------------------------------------------------
(* geminiService: what the three calls return for a response of the model *)

\* "Unknown"
UnknownLabel == <<85, 110, 107, 110, 111, 119, 110>>
\* "Manual Category"
ManualLabel == <<77, 97, 110, 117, 97, 108, 32, 67, 97, 116, 101, 103, 111, 114, 121>>

\* x || fallback, for a string x
OrElse(x, fallback) == IF x = <<>> THEN fallback ELSE x

\* parseCashbackScreenshot: rawData.map(...), for numeric percentages
ScreenshotEntries(items) ==
    [i \in 1..Len(items) |->
        [bankName   |-> OrElse(items[i].bankName, Other),
         category   |-> OrElse(items[i].category, UnknownLabel),
         percentage |-> items[i].percentage]]

\* parseUserContext: rawData.map(...)
ContextEntries(items) ==
    [i \in 1..Len(items) |->
        [bankName   |-> OrElse(items[i].bankName, Other),
         category   |-> OrElse(items[i].category, ManualLabel),
         percentage |-> items[i].percentage]]

\* refineDataWithContext: rawData.map(...)
RefinedEntries(items) ==
    [i \in 1..Len(items) |->
        [bankName   |-> OrElse(items[i].bankName, Other),
         category   |-> OrElse(items[i].category, ManualLabel),
         percentage |-> items[i].percentage]]

-----------------------------------------------------------------------------
(* Bounds and input sets *)

MaxData == 3
MaxFiles == 2

Item(b, c, p) == [bankName |-> b, category |-> c, percentage |-> p]

\* 'Такси', 'такси ', 'Кафе', 'vip|Кафе'
CatTaxi == <<1058, 1072, 1082, 1089, 1080>>
CatTaxiLower == <<1090, 1072, 1082, 1089, 1080, 32>>
CatCafe == <<1050, 1072, 1092, 1077>>
CatVipCafe == <<118, 105, 112, 124, 1050, 1072, 1092, 1077>>

\* 'Сбербанк', 'Tinkoff Black', 'Gazprom', 'Sber|vip'
NameSberbank == <<1057, 1073, 1077, 1088, 1073, 1072, 1085, 1082>>
NameTinkoffBlack == <<84, 105, 110, 107, 111, 102, 102, 32, 66, 108, 97, 99, 107>>
NameGazprom == <<71, 97, 122, 112, 114, 111, 109>>
NameSberVip == <<83, 98, 101, 114, 124, 118, 105, 112>>

\* Offers the recognition service can return: canonical names and aliases,
\* categories differing in case and padding, equal and zero percentages, a
\* bank no alias matches, and a bank name and a category holding the key
\* separator, the category offered by two banks.
ItemPool ==
    { Item(Sber, CatTaxi, 5),
      Item(Sber, CatTaxiLower, 7),
      Item(TBank, CatTaxi, 6),
      Item(NameTinkoffBlack, CatVipCafe, 5),
      Item(NameSberbank, CatCafe, 0),
      Item(NameGazprom, CatCafe, 7),
      Item(NameSberVip, CatCafe, 4),
      Item(Sber, CatVipCafe, 5) }

RECURSIVE SeqsUpTo(_, _)
SeqsUpTo(S, n) ==
    IF n = 0 THEN {<<>>}
    ELSE LET shorter == SeqsUpTo(S, n - 1)
         IN  shorter \cup {Append(q, x) : q \in shorter, x \in S}

\* the data lists the pipeline is checked on
DataLists == {ScreenshotEntries(q) : q \in SeqsUpTo(ItemPool, MaxData)} \ {<<>>}

\* responses of the model to one extraction or rewrite call
Responses ==
    { <<>>,
      <<Item(<<>>, CatCafe, 7)>>,
      <<Item(Sber, CatTaxiLower, 7), Item(TBank, CatTaxi, 6)>> }

\* ' ', '5%'
CommentTexts == {<<32>>, <<53, 37>>}

\* what is typed into the limit fields: Sber '0', ' 1x', '5', '-1';
\* T-Bank '4', '5', 'abc', ''
LimitInputs ==
    { <<Sber, <<48>>>>, <<Sber, <<32, 49, 120>>>>, <<Sber, <<53>>>>, <<Sber, <<45, 49>>>>,
      <<TBank, <<52>>>>, <<TBank, <<53>>>>, <<TBank, <<97, 98, 99>>>>, <<TBank, <<>>>> }

\* the banks whose checkbox is clicked
ToggleBanks == {Sber, TBank}

\* 'ноябрь 2026 г.'
DateLabels == {<<1085, 1086, 1103, 1073, 1088, 1100, 32, 50, 48, 50, 54, 32, 1075, 46>>}

-----------------------------------------------------------------------------
(* App *)

\* outcomes: how each extraction call of the upload ended, in call order;
\* entries: the entries the successful calls returned, in call order
NoCalls == [outcomes |-> <<>>, entries |-> <<>>]

Init ==
    /\ data = <<>>
    /\ bankConfigs = DEFAULT_CONFIGS
    /\ status = [total |-> 0, processed |-> 0, isProcessing |-> FALSE, error |-> <<>>]
    /\ userComment = <<>>
    /\ refinementComment = <<>>
    /\ isRefining = FALSE
    /\ upload = [pc |-> "idle"]
    /\ refine = [pc |-> "idle"]
    /\ oracleLog = NoCalls
    /\ clipboard = <<>>
    /\ download = <<>>

\* mutant: the toggled bank also gets the limit 5 back
ToggleUpdaterResetLimit(prev, bank) ==
    [prev EXCEPT ![bank] = [enabled |-> ~prev[bank].enabled, limit |-> 5]]

\* prev => ({ ...prev, [bank]: { ...prev[bank], enabled: !prev[bank].enabled } })
\* The spread keeps the position of an existing key, so Object.keys stays BankOrder.
ToggleUpdater(prev, bank) == [prev EXCEPT ![bank].enabled = ~prev[bank].enabled]

toggleBank(bank) ==
    /\ bankConfigs' = ToggleUpdater(bankConfigs, bank)
    /\ UNCHANGED <<data, status, userComment, refinementComment, isRefining,
                   upload, refine, oracleLog, clipboard, download>>

IsDigit(c) == c \in 48..57

RECURSIVE DigitPrefix(_)
DigitPrefix(s) ==
    IF s = <<>> \/ ~IsDigit(Head(s)) THEN <<>>
    ELSE <<Head(s)>> \o DigitPrefix(Tail(s))

RECURSIVE DecimalValue(_)
DecimalValue(ds) ==
    IF ds = <<>> THEN 0
    ELSE 10 * DecimalValue(SubSeq(ds, 1, Len(ds) - 1)) + (ds[Len(ds)] - 48)

\* parseInt(text) for decimal text: <<>> is NaN
ParseInt(text) ==
    LET t      == TrimStart(text)
        signed == t # <<>> /\ Head(t) \in {43, 45}
        ds     == DigitPrefix(IF signed THEN Tail(t) ELSE t)
    IN  IF ds = <<>> THEN <<>>
        ELSE IF signed /\ Head(t) = 45 THEN <<0 - DecimalValue(ds)>>
        ELSE <<DecimalValue(ds)>>

\* mutant: every number is taken, a negative one too
LimitAcceptedAnyNumber(num) == num # <<>>

\* !isNaN(num) && num >= 0
LimitAccepted(num) == num # <<>> /\ num[1] >= 0

\* prev => ({ ...prev, [bank]: { ...prev[bank], limit: num } })
LimitUpdater(prev, bank, num) == [prev EXCEPT ![bank].limit = num]

\* a rejected text returns without a state update
updateLimit(bank, newLimit) ==
    LET num == ParseInt(newLimit)
    IN  /\ bankConfigs' = IF LimitAccepted(num)
                          THEN LimitUpdater(bankConfigs, bank, num[1])
                          ELSE bankConfigs
        /\ UNCHANGED <<data, status, userComment, refinementComment, isRefining,
                       upload, refine, oracleLog, clipboard, download>>

\* mutant: setData(newEntries), the earlier entries are replaced
FinishDataOverwrite(prev, newEntries) == newEntries

\* setData(prev => [...prev, ...newEntries])
FinishData(prev, newEntries) == prev \o newEntries

\* The longest list data can become when the calls in flight settle, used to
\* keep the explored lists within MaxData.
Pending ==
    LET kept == IF refine.pc = "await" /\ Len(refine.currentData) > Len(data)
                THEN Len(refine.currentData) ELSE Len(data)
        new  == IF upload.pc = "idle" THEN 0 ELSE Len(upload.newEntries)
    IN  kept + new

\* the for loop of handleFilesSelected from index i on, up to the next await
\* or through the two closing updates
FilesLoop(files, i, newEntries, st) ==
    IF i <= Len(files)
    THEN /\ upload' = [pc |-> "file", files |-> files, i |-> i, newEntries |-> newEntries]
         /\ status' = st
         /\ data' = data
    ELSE /\ upload' = [pc |-> "idle"]
         /\ status' = [st EXCEPT !.isProcessing = FALSE]
         /\ data' = FinishData(data, newEntries)

\* handleFilesSelected, up to its first await. The upload zone and the comment
\* box are disabled while status.isProcessing || isRefining.
FilesSelected(n) ==
    LET files == [k \in 1..n |-> k]
        st    == [total |-> n, processed |-> 0, isProcessing |-> TRUE, error |-> <<>>]
    IN  /\ ~(status.isProcessing \/ isRefining)
        /\ oracleLog' = NoCalls
        /\ IF Trim(userComment) # <<>>
           THEN /\ upload' = [pc |-> "context", files |-> files, i |-> 1,
                              newEntries |-> <<>>]
                /\ status' = st
                /\ data' = data
           ELSE FilesLoop(files, 1, <<>>, st)
        /\ UNCHANGED <<bankConfigs, userComment, refinementComment, isRefining,
                       refine, clipboard, download>>

\* parseUserContext resolves with the mapped response
ContextReturns(items) ==
    /\ upload.pc = "context"
    /\ Pending + Len(items) <= MaxData
    /\ oracleLog' = [oracleLog EXCEPT !.outcomes = Append(@, "context ok"),
                                       !.entries = @ \o ContextEntries(items)]
    /\ FilesLoop(upload.files, 1, upload.newEntries \o ContextEntries(items), status)
    /\ UNCHANGED <<bankConfigs, userComment, refinementComment, isRefining,
                   refine, clipboard, download>>

\* parseUserContext fails inside: it catches the error and resolves with []
ContextFails ==
    /\ upload.pc = "context"
    /\ oracleLog' = [oracleLog EXCEPT !.outcomes = Append(@, "context failed")]
    /\ FilesLoop(upload.files, 1, upload.newEntries \o <<>>, status)
    /\ UNCHANGED <<bankConfigs, userComment, refinementComment, isRefining,
                   refine, clipboard, download>>

\* parseCashbackScreenshot(files[i]) resolves
FileReturns(items) ==
    /\ upload.pc = "file"
    /\ Pending + Len(items) <= MaxData
    /\ oracleLog' = [oracleLog EXCEPT !.outcomes = Append(@, "file ok"),
                                       !.entries = @ \o ScreenshotEntries(items)]
    /\ FilesLoop(upload.files, upload.i + 1,
                 upload.newEntries \o ScreenshotEntries(items),
                 [status EXCEPT !.processed = status.processed + 1])
    /\ UNCHANGED <<bankConfigs, userComment, refinementComment, isRefining,
                   refine, clipboard, download>>

\* parseCashbackScreenshot(files[i]) rejects: the catch block of the loop
FileThrows ==
    /\ upload.pc = "file"
    /\ oracleLog' = [oracleLog EXCEPT !.outcomes = Append(@, "file failed")]
    /\ FilesLoop(upload.files, upload.i + 1, upload.newEntries,
                 [status EXCEPT !.error = <<upload.files[upload.i]>>])
    /\ UNCHANGED <<bankConfigs, userComment, refinementComment, isRefining,
                   refine, clipboard, download>>

\* handleRefineData up to its await. The button is shown when data.length > 0
\* and disabled while isRefining || !refinementComment.trim().
RefineData ==
    /\ ~isRefining
    /\ Trim(refinementComment) # <<>>
    /\ Len(data) # 0
    /\ isRefining' = TRUE
    /\ refine' = [pc |-> "await", currentData |-> data,
                  userInstruction |-> refinementComment]
    /\ UNCHANGED <<data, bankConfigs, status, userComment, refinementComment,
                   upload, oracleLog, clipboard, download>>

\* refineDataWithContext resolves with the mapped response
RefineReturns(items) ==
    /\ refine.pc = "await"
    /\ Pending - Len(data) + Len(items) <= MaxData
    /\ data' = RefinedEntries(items)
    /\ refinementComment' = <<>>
    /\ isRefining' = FALSE
    /\ refine' = [pc |-> "idle", settled |-> "resolved"]
    /\ UNCHANGED <<bankConfigs, status, userComment, upload, oracleLog,
                   clipboard, download>>

\* refineDataWithContext gets an empty response text: it resolves with currentData
RefineReturnsCurrent ==
    /\ refine.pc = "await"
    /\ data' = refine.currentData
    /\ refinementComment' = <<>>
    /\ isRefining' = FALSE
    /\ refine' = [pc |-> "idle", settled |-> "resolved"]
    /\ UNCHANGED <<bankConfigs, status, userComment, upload, oracleLog,
                   clipboard, download>>

\* mutant: the catch block without the finally block
RefineThrowsWithoutFinally ==
    /\ refine.pc = "await"
    /\ refine' = [pc |-> "idle", settled |-> "rejected"]
    /\ UNCHANGED <<data, bankConfigs, status, userComment, refinementComment,
                   isRefining, upload, oracleLog, clipboard, download>>

\* refineDataWithContext rejects: catch and finally
RefineThrows ==
    /\ refine.pc = "await"
    /\ isRefining' = FALSE
    /\ refine' = [pc |-> "idle", settled |-> "rejected"]
    /\ UNCHANGED <<data, bankConfigs, status, userComment, refinementComment,
                   upload, oracleLog, clipboard, download>>

SetUserComment(text) ==
    /\ ~(status.isProcessing \/ isRefining)
    /\ userComment' = text
    /\ UNCHANGED <<data, bankConfigs, status, refinementComment, isRefining,
                   upload, refine, oracleLog, clipboard, download>>

SetRefinementComment(text) ==
    /\ Len(data) > 0
    /\ refinementComment' = text
    /\ UNCHANGED <<data, bankConfigs, status, userComment, isRefining,
                   upload, refine, oracleLog, clipboard, download>>

\* handleClearData with the confirm dialog accepted
ClearData ==
    /\ Len(data) > 0
    /\ data' = <<>>
    /\ UNCHANGED <<bankConfigs, status, userComment, refinementComment, isRefining,
                   upload, refine, oracleLog, clipboard, download>>

\* DataTable renders its buttons only when data.length > 0
copyToClipboard ==
    /\ Len(data) # 0
    /\ clipboard' = ClipboardText(matrix, targetBanks)
    /\ UNCHANGED <<data, bankConfigs, status, userComment, refinementComment,
                   isRefining, upload, refine, oracleLog, download>>

downloadCheatSheet(date) ==
    /\ Len(data) # 0
    /\ download' = Join(CheatSheetLines(matrix, date), <<10>>)
    /\ UNCHANGED <<data, bankConfigs, status, userComment, refinementComment,
                   isRefining, upload, refine, oracleLog, clipboard>>

-----------------------------------------------------------------------------
(* Specifications *)

\* The data lifecycle of the App: uploads, refinement, comments, clearing.
Next ==
    \/ \E n \in 0..MaxFiles : FilesSelected(n)
    \/ \E items \in Responses : ContextReturns(items)
    \/ ContextFails
    \/ \E items \in Responses : FileReturns(items)
    \/ FileThrows
    \/ RefineData
    \/ \E items \in Responses : RefineReturns(items)
    \/ RefineReturnsCurrent
    \/ RefineThrows
    \/ \E text \in CommentTexts : SetUserComment(text)
    \/ \E text \in CommentTexts : SetRefinementComment(text)
    \/ ClearData

Spec == Init /\ [][Next]_vars

\* The settings panel over every bounded data list.
ConfigInit ==
    /\ data \in DataLists
    /\ bankConfigs = DEFAULT_CONFIGS
    /\ status = [total |-> 0, processed |-> 0, isProcessing |-> FALSE, error |-> <<>>]
    /\ userComment = <<>>
    /\ refinementComment = <<>>
    /\ isRefining = FALSE
    /\ upload = [pc |-> "idle"]
    /\ refine = [pc |-> "idle"]
    /\ oracleLog = NoCalls
    /\ clipboard = <<>>
    /\ download = <<>>

ConfigNext ==
    \/ \E b \in ToggleBanks : toggleBank(b)
    \/ \E in \in LimitInputs : updateLimit(in[1], in[2])

ConfigSpec == ConfigInit /\ [][ConfigNext]_vars

\* The two export buttons over every bounded data list and a set of
\* configurations the settings panel can produce.
ExportConfigs ==
    { [DEFAULT_CONFIGS EXCEPT ![Sber].limit = l, ![TBank].enabled = e]
        : l \in {0, 1, 5}, e \in BOOLEAN }

ExportInit ==
    /\ data \in DataLists
    /\ bankConfigs \in ExportConfigs
    /\ status = [total |-> 0, processed |-> 0, isProcessing |-> FALSE, error |-> <<>>]
    /\ userComment = <<>>
    /\ refinementComment = <<>>
    /\ isRefining = FALSE
    /\ upload = [pc |-> "idle"]
    /\ refine = [pc |-> "idle"]
    /\ oracleLog = NoCalls
    /\ clipboard = <<>>
    /\ download = <<>>

ExportNext ==
    \/ copyToClipboard
    \/ \E date \in DateLabels : downloadCheatSheet(date)

ExportSpec == ExportInit /\ [][ExportNext]_vars

\* 'Такси ' with a tab in front, ' ТАКСИ'
CatTaxiTabbed == <<9, 1058, 1072, 1082, 1089, 1080, 32>>
CatTaxiUpper == <<32, 1058, 1040, 1050, 1057, 1048>>

\* Offers that meet in one Map entry: equal and rising percentages under
\* displays differing in case and padding, an alias of the bank, and the two
\* offers whose key strings coincide.
DedupPool ==
    { Item(Sber, CatTaxiTabbed, 5),
      Item(NameSberbank, CatTaxiUpper, 5),
      Item(Sber, CatTaxiLower, 7),
      Item(NameSberVip, CatCafe, 4),
      Item(Sber, CatVipCafe, 5) }

\* The pipeline over the lists of offers that meet in one Map entry.
DedupInit ==
    /\ data \in {ScreenshotEntries(q) : q \in SeqsUpTo(DedupPool, MaxData)} \ {<<>>}
    /\ bankConfigs = DEFAULT_CONFIGS
    /\ status = [total |-> 0, processed |-> 0, isProcessing |-> FALSE, error |-> <<>>]
    /\ userComment = <<>>
    /\ refinementComment = <<>>
    /\ isRefining = FALSE
    /\ upload = [pc |-> "idle"]
    /\ refine = [pc |-> "idle"]
    /\ oracleLog = NoCalls
    /\ clipboard = <<>>
    /\ download = <<>>

DedupSpec == DedupInit /\ [][ConfigNext]_vars

-----------------------------------------------------------------------------
(* Properties of the pipeline *)

\* the (normalized bank, trimmed lower-cased category) pair of a raw entry
RawKey(entry) == <<NormalizeBank(entry.bankName), ToLowerCase(Trim(entry.category))>>

\* the same pair of a deduplicated entry
CleanKey(entry) == <<entry.bankName, ToLowerCase(entry.category)>>

CanonicalBanks == {Sber, TBank, Alfa, VTB, Yandex, Other}

EnabledBanks == {b \in Banks : bankConfigs[b].enabled}

\* the deduplicated entries of one bank
OffersOf(clean, bank) == {i \in 1..Len(clean) : clean[i].bankName = bank}

\* C1: the deduplicated set holds exactly one entry per distinct (normalized
\* bank, trimmed lower-cased category) pair of the raw list, no other entry,
\* and that entry's percentage is the maximum among the raw entries of the pair.
C1_DedupInvariant ==
    LET clean == CleanData(data)
        keys  == {RawKey(data[i]) : i \in 1..Len(data)}
    IN  /\ \A i \in 1..Len(clean) : CleanKey(clean[i]) \in keys
        /\ \A k \in keys :
              LET kept == {i \in 1..Len(clean) : CleanKey(clean[i]) = k}
                  raw  == {data[i].percentage : i \in {j \in 1..Len(data) : RawKey(data[j]) = k}}
              IN  /\ Cardinality(kept) = 1
                  /\ \A i \in kept : clean[i].percentage = MaxOf(raw)

\* C2: for every enabled bank the number of its deduplicated entries marked
\* selected is at most its configured limit and equals min(limit, number of
\* its distinct categories); a limit of 0 selects nothing.
C2_SelectionSize ==
    LET clean == CleanData(data)
        sel   == BankSelections(clean, bankConfigs)
    IN  \A b \in EnabledBanks :
           LET offers == OffersOf(clean, b)
               chosen == {i \in offers : Key(b, ToLowerCase(clean[i].category)) \in sel}
               limit  == bankConfigs[b].limit
           IN  Cardinality(chosen) =
                  (IF limit < Cardinality(offers) THEN limit ELSE Cardinality(offers))

\* the percentages of the selected cells of a row
SelectedPercents(row) ==
    {row.values[j].percentage[1] :
        j \in {k \in 1..Len(row.values) :
                  row.values[k].isSelected /\ row.values[k].percentage # <<>>}}

\* a cell that is selected, has a percentage, and no selected cell of the row
\* has a greater one
IsBestSelected(row, cell) ==
    /\ cell.isSelected
    /\ cell.percentage # <<>>
    /\ \A p \in SelectedPercents(row) : p <= cell.percentage[1]

\* the cells of a row the cheat sheet names
SheetWinnerCells(row) ==
    LET w == SheetWinners(row) IN {w[i] : i \in 1..Len(w)}

\* C3: in every row a cell is a winner, in the rendered table and in the cheat
\* sheet alike, iff it is selected, has a percentage and that percentage is
\* the maximum among the row's selected cells; a row without selected cells
\* has no winner and no cell that is not selected is a winner.
C3_WinnerInvariant ==
    LET m == matrix
    IN  \A r \in 1..Len(m) : \A j \in 1..Len(m[r].values) :
           LET cell == m[r].values[j]
           IN  /\ (CellClass(m[r], cell) = "winner") <=> IsBestSelected(m[r], cell)
               /\ RenderIsWinner(m[r], cell) <=> IsBestSelected(m[r], cell)
               /\ (cell \in SheetWinnerCells(m[r])) <=> IsBestSelected(m[r], cell)

\* C3 witness: one row has two winners tied at the same percentage and
\* another row holds an offer but no selected cell, so no winner.
C3_Witness ==
    LET m == matrix
    IN  /\ \E r \in 1..Len(m) : \E j, k \in 1..Len(m[r].values) :
              /\ j # k
              /\ RenderIsWinner(m[r], m[r].values[j])
              /\ RenderIsWinner(m[r], m[r].values[k])
        /\ \E r \in 1..Len(m) :
              /\ \E j \in 1..Len(m[r].values) : m[r].values[j].percentage # <<>>
              /\ \A j \in 1..Len(m[r].values) : ~m[r].values[j].isSelected
              /\ SheetWinners(m[r]) = <<>>

\* C4: every cell reflects the deduplicated offer for (row's category,
\* column's bank): with such an offer it carries its percentage and the
\* selector's flag for it, without one it has no percentage and is not selected.
C4_CellsReflectOffers ==
    LET clean == CleanData(data)
        sel   == BankSelections(clean, bankConfigs)
        m     == matrix
    IN  \A r \in 1..Len(m) : \A j \in 1..Len(m[r].values) :
           LET cell  == m[r].values[j]
               offer == {i \in OffersOf(clean, cell.bank) : clean[i].category = m[r].name}
           IN  IF offer # {}
               THEN \A i \in offer :
                       /\ cell.percentage = <<clean[i].percentage>>
                       /\ cell.isSelected =
                             (Key(cell.bank, ToLowerCase(clean[i].category)) \in sel)
               ELSE cell.percentage = <<>> /\ ~cell.isSelected

\* C5: the normalized bank of every raw entry, as used in the dedup key and
\* the matrix, is one of Sber, T-Bank, Alfa, VTB, Yandex, Other.
C5_BankCanonicalClosed ==
    LET clean == CleanData(data)
    IN  /\ \A i \in 1..Len(data) : NormalizeBank(data[i].bankName) \in CanonicalBanks
        /\ \A i \in 1..Len(clean) : clean[i].bankName \in CanonicalBanks

\* The selection-size statement of C2 for the enabled banks whose configured
\* limit is positive.
SelectionSizeForPositiveLimits ==
    LET clean == CleanData(data)
        sel   == BankSelections(clean, bankConfigs)
    IN  \A b \in {x \in EnabledBanks : bankConfigs[x].limit > 0} :
           LET offers == OffersOf(clean, b)
               chosen == {i \in offers : Key(b, ToLowerCase(clean[i].category)) \in sel}
               limit  == bankConfigs[b].limit
           IN  Cardinality(chosen) =
                  (IF limit < Cardinality(offers) THEN limit ELSE Cardinality(offers))

HasSeparator(text) == \E i \in 1..Len(text) : text[i] = 124

\* The dedup invariant of C1 on the raw lists in which no bank name and no
\* category holds the key separator '|'.
DedupInvariantWithoutSeparator ==
    (\A i \in 1..Len(data) :
        ~HasSeparator(data[i].bankName) /\ ~HasSeparator(data[i].category))
    => C1_DedupInvariant

\* the set of row names of a matrix
RowNames(m) == {m[r].name : r \in 1..Len(m)}

\* the banks of the columns of a row
ColumnBanks(row) == {row.values[j].bank : j \in 1..Len(row.values)}

C6_Columns ==
    LET m == matrix
    IN  /\ {targetBanks[j] : j \in 1..Len(targetBanks)} = EnabledBanks
        /\ Len(targetBanks) = Cardinality(EnabledBanks)
        /\ \A r \in 1..Len(m) :
              /\ ColumnBanks(m[r]) = EnabledBanks
              /\ Len(m[r].values) = Cardinality(EnabledBanks)

C6_Rows ==
    LET clean == CleanData(data)
        m     == matrix
    IN  /\ RowNames(m) = {clean[i].category :
                             i \in {k \in 1..Len(clean) : clean[k].bankName \in EnabledBanks}}
        /\ Len(m) = Cardinality(RowNames(m))

\* what each cell of a matrix shows: <<category, bank, percentage>>
ShownPercentages(m) ==
    UNION { {<<m[r].name, m[r].values[j].bank, m[r].values[j].percentage>>
                : j \in 1..Len(m[r].values)} : r \in 1..Len(m) }

\* a step that disables a bank keeps, in every remaining cell, the percentage
\* the cell showed before
C6_DisablingKeepsPercentages ==
    (/\ data' = data
     /\ \E b \in Banks : bankConfigs[b].enabled /\ ~bankConfigs'[b].enabled)
    => ShownPercentages(MatrixOf(data', bankConfigs'))
          \subseteq ShownPercentages(MatrixOf(data, bankConfigs))

\* C6: the matrix columns are exactly the enabled banks; a category is a row
\* iff a deduplicated entry of an enabled bank has that category display; and
\* disabling a bank never changes the percentage shown in a remaining cell.
C6_DisabledBankExclusion ==
    /\ [](C6_Columns /\ C6_Rows)
    /\ [][C6_DisablingKeepsPercentages]_vars

\* C6 witness: a bank with an offer is disabled, the category only it offers
\* is no row, and a row of another bank's category remains.
C6_Witness ==
    LET clean == CleanData(data)
        m     == matrix
    IN  /\ Len(m) > 0
        /\ \E i \in 1..Len(clean) :
              /\ clean[i].bankName \in Banks \ EnabledBanks
              /\ clean[i].category \notin RowNames(m)

\* the raw list of the reconciliation example
TaxiExample ==
    << [bankName |-> Sber, category |-> CatTaxi, percentage |-> 5],
       [bankName |-> Sber, category |-> CatTaxiLower, percentage |-> 7],
       [bankName |-> TBank, category |-> CatTaxi, percentage |-> 6] >>

\* C7: for the taxi example with Sber and T-Bank enabled at limit 5, dedup
\* yields (Sber, 'такси', 7) and (T-Bank, 'Такси', 6), both are selected, and
\* one row holds Sber's 7% as the winner and T-Bank's 6%, which is no winner.
C7_TaxiExample ==
    (/\ data = TaxiExample
     /\ bankConfigs[Sber] = [enabled |-> TRUE, limit |-> 5]
     /\ bankConfigs[TBank] = [enabled |-> TRUE, limit |-> 5])
    => LET clean == CleanData(data)
           sel   == BankSelections(clean, bankConfigs)
           m     == matrix
       IN  /\ clean = << [bankName |-> Sber, category |-> Trim(CatTaxiLower),
                          percentage |-> 7],
                         [bankName |-> TBank, category |-> CatTaxi, percentage |-> 6] >>
           /\ Key(Sber, ToLowerCase(CatTaxi)) \in sel
           /\ Key(TBank, ToLowerCase(CatTaxi)) \in sel
           /\ \E r \in 1..Len(m) : \E j, k \in 1..Len(m[r].values) :
                 /\ m[r].values[j].bank = Sber
                 /\ m[r].values[j].percentage = <<7>>
                 /\ RenderIsWinner(m[r], m[r].values[j])
                 /\ m[r].values[k].bank = TBank
                 /\ m[r].values[k].percentage = <<6>>
                 /\ ~RenderIsWinner(m[r], m[r].values[k])
                 /\ SheetWinners(m[r]) = <<m[r].values[j]>>

-----------------------------------------------------------------------------
(* Properties of the exports *)

\* a cell as the claim renders it: '<percentage>%' for an offer, '' without one
OfferText(cell) ==
    IF cell.percentage # <<>> THEN NumToStr(cell.percentage[1]) \o <<37>> ELSE <<>>

TableLine(row) ==
    Join(<<row.name>> \o [j \in 1..Len(row.values) |-> OfferText(row.values[j])], <<9>>)

\* C8: the copied text is the header line, the category label and the enabled
\* banks tab-separated, then one line per matrix row; a cell is '<percentage>%'
\* whenever the bank has an offer for the category, an offer of 0 included,
\* and empty only when the cell is absent.
C8_TabularExport ==
    clipboard # <<>> =>
        LET m == matrix
        IN  clipboard = Join(<<CategoryLabel>> \o targetBanks, <<9>>) \o <<10>>
                        \o Join([r \in 1..Len(m) |-> TableLine(m[r])], <<10>>)

\* The statement of C8 for the data lists that hold no offer of 0.
TabularExportOfNonZeroOffers ==
    (\A i \in 1..Len(data) : data[i].percentage # 0) => C8_TabularExport

\* the cells of a row the rendered table highlights as best choice
Highlighted(row) == SelectSeq(row.values, LAMBDA c : CellClass(row, c) = "winner")

HighlightedLine(row) ==
    LET best == Highlighted(row)
    IN  <<9989, 32>> \o row.name \o <<58, 32>>
        \o Join([i \in 1..Len(best) |->
                    best[i].bank \o <<32, 40>> \o NumToStr(best[i].percentage[1])
                    \o <<37, 41>>],
                OrConnector)

RECURSIVE HighlightedLines(_)
HighlightedLines(m) ==
    IF m = <<>> THEN <<>>
    ELSE (IF Highlighted(Head(m)) # <<>> THEN <<HighlightedLine(Head(m))>> ELSE <<>>)
         \o HighlightedLines(Tail(m))

\* C9: the cheat sheet has, between its heading and closing lines, exactly
\* one line for every row with a highlighted best choice and none for the
\* other rows; a line names the row's highlighted cells, in column order,
\* joined by ' или '.
C9_CheatSheetMatchesTable ==
    download # <<>> =>
        \E date \in DateLabels :
            download = Join(SheetHead(date) \o HighlightedLines(matrix) \o SheetFoot, <<10>>)

\* C9 witness: a sheet was downloaded for a matrix with a row of two tied
\* best choices and a row with an offer and no best choice.
C9_Witness ==
    LET m == matrix
    IN  /\ download # <<>>
        /\ \E r \in 1..Len(m) : Len(Highlighted(m[r])) >= 2
        /\ \E r \in 1..Len(m) :
              /\ Highlighted(m[r]) = <<>>
              /\ \E j \in 1..Len(m[r].values) : m[r].values[j].percentage # <<>>

-----------------------------------------------------------------------------
(* Properties of the upload *)

\* the step in which a running handleFilesSelected returns
UploadCompletes == upload.pc # "idle" /\ upload'.pc = "idle"

FileCalls(log) ==
    Len(SelectSeq(log.outcomes, LAMBDA o : o \in {"file ok", "file failed"}))

C10_Step ==
    /\ UploadCompletes =>
          /\ data' = data \o oracleLog'.entries
          /\ FileCalls(oracleLog') = Len(upload.files)
          /\ status'.processed =
                Len(SelectSeq(oracleLog'.outcomes, LAMBDA o : o = "file ok"))
    /\ (oracleLog' # oracleLog /\ upload'.pc # "idle") => data' = data

\* C10: when handleFilesSelected completes, data is the data present before
\* followed by the entries of exactly the extraction calls that succeeded, in
\* call order; a failed call adds nothing, every file is still processed, and
\* no earlier step of the upload changes data.
C10_FailedExtractionKeepsData == [][C10_Step]_vars

\* C10 witness: an upload onto existing data has completed in which the
\* first file failed and the second returned entries, now the end of data.
C10_Witness ==
    /\ upload.pc = "idle"
    /\ oracleLog.outcomes = <<"file failed", "file ok">>
    /\ oracleLog.entries # <<>>
    /\ Len(data) > Len(oracleLog.entries)
    /\ SubSeq(data, Len(data) - Len(oracleLog.entries) + 1, Len(data)) = oracleLog.entries
    /\ status.error # <<>>

-----------------------------------------------------------------------------
(* Properties of the settings panel *)

\* the configuration after the limit field of a bank is set back to the
\* number n it showed before, typed as its decimal text
LimitTypedBack(cfg, bank, n) ==
    LET num == ParseInt(NumToStr(n))
    IN  IF LimitAccepted(num) THEN LimitUpdater(cfg, bank, num[1]) ELSE cfg

C11_Step ==
    \A b \in Banks :
       /\ bankConfigs'[b].enabled # bankConfigs[b].enabled =>
             LET back == ToggleUpdater(bankConfigs', b)
             IN  /\ back = bankConfigs
                 /\ MatrixOf(data', back) = MatrixOf(data, bankConfigs)
       /\ bankConfigs'[b].limit # bankConfigs[b].limit =>
             LET back == LimitTypedBack(bankConfigs', b, bankConfigs[b].limit)
             IN  /\ back = bankConfigs
                 /\ MatrixOf(data', back) = MatrixOf(data, bankConfigs)

C12_Limits ==
    /\ DOMAIN bankConfigs = Banks
    /\ \A b \in Banks : bankConfigs[b].limit \in Nat /\ bankConfigs[b].enabled \in BOOLEAN

\* a step that changes the configuration changes one bank's record: either
\* its enabled flag alone, or its limit alone, to the number of an accepted text
C12_Step ==
    /\ bankConfigs' # bankConfigs =>
          \E b \in Banks :
             /\ \A c \in Banks \ {b} : bankConfigs'[c] = bankConfigs[c]
             /\ \/ /\ bankConfigs'[b].enabled = ~bankConfigs[b].enabled
                   /\ bankConfigs'[b].limit = bankConfigs[b].limit
                \/ /\ bankConfigs'[b].enabled = bankConfigs[b].enabled
                   /\ \E in \in LimitInputs :
                         /\ in[1] = b
                         /\ ParseInt(in[2]) # <<>>
                         /\ ParseInt(in[2])[1] >= 0
                         /\ bankConfigs'[b].limit = ParseInt(in[2])[1]
    /\ \A in \in LimitInputs :
          (updateLimit(in[1], in[2]) /\ (ParseInt(in[2]) = <<>> \/ ParseInt(in[2])[1] < 0))
          => bankConfigs' = bankConfigs
    /\ \A b \in ToggleBanks :
          toggleBank(b) =>
             /\ bankConfigs'[b] = [enabled |-> ~bankConfigs[b].enabled,
                                   limit   |-> bankConfigs[b].limit]
             /\ \A c \in Banks \ {b} : bankConfigs'[c] = bankConfigs[c]

\* C12: from DEFAULT_CONFIGS, after any toggleBank and updateLimit calls with
\* any text, every bank's limit is an integer >= 0; an updateLimit call with a
\* rejected text leaves the configuration unchanged, and toggleBank changes
\* only the enabled flag of the named bank.
C12_ConfigLimitInvariant == []C12_Limits /\ [][C12_Step]_vars

\* C12 witness: the text ' 1x' was accepted as 1 for Sber, T-Bank was
\* switched off and got the limit 5, and the other banks are as at the start.
C12_Witness ==
    /\ bankConfigs[Sber] = [enabled |-> TRUE, limit |-> 1]
    /\ bankConfigs[TBank] = [enabled |-> FALSE, limit |-> 5]
    /\ \A b \in Banks \ {Sber, TBank} : bankConfigs[b] = DEFAULT_CONFIGS[b]

-----------------------------------------------------------------------------
(* Properties of dedup and selection order *)

\* the index of the first raw entry with the (bank, category) pair k
FirstAppearance(d, k) ==
    CHOOSE i \in 1..Len(d) :
        /\ RawKey(d[i]) = k
        /\ \A j \in 1..(i - 1) : RawKey(d[j]) # k

NoSeparators ==
    \A i \in 1..Len(data) :
        ~HasSeparator(data[i].bankName) /\ ~HasSeparator(data[i].category)

\* no two raw entries of different (bank, category) pairs get the same key string
NoKeyCollision ==
    \A i, j \in 1..Len(data) :
        Key(RawKey(data[i])[1], RawKey(data[i])[2]) = Key(RawKey(data[j])[1], RawKey(data[j])[2])
        => RawKey(data[i]) = RawKey(data[j])

\* C13: of two deduplicated entries of the same enabled bank, one selected
\* and one not, the selected one has the percentage >= the other's, and with
\* equal percentages its (bank, category) pair first appeared earlier in the
\* raw list.
C13_StableRankingSelection ==
    LET clean == CleanData(data)
        sel   == BankSelections(clean, bankConfigs)
    IN  \A b \in EnabledBanks : \A i, j \in OffersOf(clean, b) :
           (/\ Key(b, ToLowerCase(clean[i].category)) \in sel
            /\ Key(b, ToLowerCase(clean[j].category)) \notin sel)
           => /\ clean[i].percentage >= clean[j].percentage
              /\ clean[i].percentage = clean[j].percentage
                    => FirstAppearance(data, CleanKey(clean[i]))
                          < FirstAppearance(data, CleanKey(clean[j]))

\* The statement of C13 on the raw lists in which no two pairs collide in
\* their key string.
StableRankingWithoutCollision == NoKeyCollision => C13_StableRankingSelection

\* a state in which the ranking decides: a bank with limit 1 has two offers
\* of equal percentage, the earlier one is selected and the later one is not
StableRankingTieSeen ==
    LET clean == CleanData(data)
        sel   == BankSelections(clean, bankConfigs)
    IN  /\ NoKeyCollision
        /\ \E b \in EnabledBanks : \E i, j \in OffersOf(clean, b) :
              /\ clean[i].percentage = clean[j].percentage
              /\ Key(b, ToLowerCase(clean[i].category)) \in sel
              /\ Key(b, ToLowerCase(clean[j].category)) \notin sel

\* the raw entries with the (bank, category) pair k
GroupOf(d, k) == {i \in 1..Len(d) : RawKey(d[i]) = k}

\* the first raw entry of the pair k that carries the greatest percentage of
\* the pair
FirstMax(d, k) ==
    LET g   == GroupOf(d, k)
        top == MaxOf({d[i].percentage : i \in g})
    IN  CHOOSE i \in g :
            /\ d[i].percentage = top
            /\ \A j \in g : d[j].percentage = top => i <= j

\* C14: a surviving entry is, among the raw entries of its (bank, category)
\* pair, the first in input order with the maximum percentage (a later one
\* replaces the kept one only with a strictly greater percentage), and its
\* category display is the trimmed, original-case category of that raw entry.
C14_DedupConflictResolution ==
    LET clean == CleanData(data)
    IN  \A i \in 1..Len(clean) :
           LET k == CleanKey(clean[i])
           IN  /\ GroupOf(data, k) # {}
               /\ LET f == FirstMax(data, k)
                  IN  /\ clean[i].percentage = data[f].percentage
                      /\ clean[i].category = Trim(data[f].category)
                      /\ clean[i].bankName = NormalizeBank(data[f].bankName)

\* C14 witness: the raw entries share the pair (Sber, 'такси') and all carry
\* 5; the first two differ in display and bank spelling, and the kept entry
\* shows the first one's trimmed text, not the second one's.
C14_Witness ==
    LET clean == CleanData(data)
    IN  /\ Len(data) >= 2
        /\ data[1] = Item(Sber, CatTaxiTabbed, 5)
        /\ data[2] = Item(NameSberbank, CatTaxiUpper, 5)
        /\ \A i \in 1..Len(data) : data[i].percentage = 5
        /\ clean = <<Item(Sber, Trim(CatTaxiTabbed), 5)>>
        /\ Trim(CatTaxiTabbed) # CatTaxiTabbed
        /\ Trim(CatTaxiTabbed) # Trim(CatTaxiUpper)

-----------------------------------------------------------------------------
(* Properties of the matrix order *)

\* a before b in lexicographic order of the code units
LexBefore(a, b) ==
    \E n \in 0..Len(a) :
        /\ n <= Len(b)
        /\ \A i \in 1..n : a[i] = b[i]
        /\ \/ n = Len(a) /\ n < Len(b)
           \/ n < Len(a) /\ n < Len(b) /\ a[n + 1] < b[n + 1]

\* the position of a bank in Sber, T-Bank, Alfa, VTB, Yandex
ColumnRank(bank) ==
    CHOOSE i \in 1..5 : <<Sber, TBank, Alfa, VTB, Yandex>>[i] = bank

\* a list of banks that holds exactly the enabled banks, each once, in the
\* order Sber, T-Bank, Alfa, VTB, Yandex
InColumnOrder(banks) ==
    /\ {banks[j] : j \in 1..Len(banks)} = EnabledBanks
    /\ \A j \in 1..(Len(banks) - 1) : ColumnRank(banks[j]) < ColumnRank(banks[j + 1])

\* C15: the rows are in strictly ascending lexicographic order of category
\* display, so no row is repeated, and the columns, in the header and in
\* every row, are the enabled banks in the order Sber, T-Bank, Alfa, VTB,
\* Yandex after any toggleBank and updateLimit calls.
C15_MatrixOrdering ==
    LET m == matrix
    IN  /\ \A r \in 1..(Len(m) - 1) : LexBefore(m[r].name, m[r + 1].name)
        /\ InColumnOrder(targetBanks)
        /\ \A r \in 1..Len(m) :
              InColumnOrder([j \in 1..Len(m[r].values) |-> m[r].values[j].bank])

\* C15 witness: Sber is switched off, so the columns start at T-Bank, and
\* the matrix has two rows.
C15_Witness ==
    /\ ~bankConfigs[Sber].enabled
    /\ bankConfigs[TBank].enabled
    /\ targetBanks = <<TBank, Alfa, VTB, Yandex>>
    /\ Len(matrix) = 2
    /\ matrix[1].name # matrix[2].name

-----------------------------------------------------------------------------
(* Properties of the refinement *)

\* the await of handleRefineData settles: the promise resolves or rejects
RefineSettles ==
    \/ \E items \in Responses : RefineReturns(items)
    \/ RefineReturnsCurrent
    \/ RefineThrows

\* The App under the assumption that a pending rewrite call settles.
RefineFairSpec == Init /\ [][Next]_vars /\ WF_vars(RefineSettles)

\* the step in which a running handleRefineData returns
RefineCompletes == refine.pc = "await" /\ refine'.pc = "idle"

\* what setData(updatedData) can write for the snapshot the call was given
RewriteResults(currentData) ==
    {RefinedEntries(items) : items \in Responses} \cup {currentData}

C16_Step ==
    /\ RefineCompletes =>
          /\ isRefining' = FALSE
          /\ \/ /\ data' = data
                /\ refinementComment' = refinementComment
             \/ /\ data' \in RewriteResults(refine.currentData)
                /\ refinementComment' = <<>>
    /\ RefineThrows =>
          /\ data' = data
          /\ refinementComment' = refinementComment
          /\ isRefining' = FALSE
    /\ (refine.pc = "await" /\ refine'.pc = "await") => isRefining' = isRefining

\* C16: when refineDataWithContext throws, data and refinementComment stay
\* as they are and isRefining becomes false; data is replaced and the comment
\* cleared only when the rewrite succeeds; and a started handleRefineData
\* always leads to isRefining being false again.
C16_RefineFailureKeepsState ==
    /\ [][C16_Step]_vars
    /\ [](refine.pc = "await" => isRefining)
    /\ (refine.pc = "await") ~> (refine.pc = "idle" /\ ~isRefining)

\* C16 witness: the last rewrite call was rejected; the spinner is off, and
\* the data and the typed comment are still there.
C16_Witness ==
    /\ refine = [pc |-> "idle", settled |-> "rejected"]
    /\ ~isRefining
    /\ Len(data) > 0
    /\ Trim(refinementComment) # <<>>

\* a step in which the rewrite result replaces a list that an upload has
\* extended since the rewrite call was given its snapshot
UploadOverwritten ==
    /\ RefineCompletes
    /\ refinementComment' = <<>>
    /\ Len(data) > Len(refine.currentData)
    /\ SubSeq(data, 1, Len(refine.currentData)) = refine.currentData
    /\ data' \in RewriteResults(refine.currentData)

\* No rewrite result replaces entries an upload appended after the snapshot.
NoUploadOverwritten == [][~UploadOverwritten]_vars

C17_Step ==
    /\ (refine.pc = "await" /\ refine'.pc = "await") => data' = data
    /\ (RefineCompletes /\ refinementComment' = <<>>) => data = refine.currentData

\* C17: handleRefineData and handleFilesSelected are never in flight
\* together, no other operation changes data while a rewrite call is
\* pending, and the rewrite result replaces the very list the call was given.
C17_NoLostUpdate ==
    /\ [](~(refine.pc = "await" /\ upload.pc # "idle"))
    /\ [][C17_Step]_vars

-----------------------------------------------------------------------------
(* Properties of the banks outside the configuration *)

\* the raw entries whose normalized bank is an enabled key of bankConfigs
EnabledRaw(d, cfg) ==
    SelectSeq(d, LAMBDA e : /\ NormalizeBank(e.bankName) \in Banks
                            /\ cfg[NormalizeBank(e.bankName)].enabled)

\* C18: a deduplicated entry whose bank is no enabled key of bankConfigs
\* gives the matrix no column, no row, no cell percentage, no selection and
\* no winner: every column is an enabled bank, every row name is the
\* category of an enabled bank's entry, and every percentage, selection flag
\* and winner of a cell stems from an entry of the cell's own bank.
C18_UnconfiguredBanksExcluded ==
    LET clean == CleanData(data)
        m     == matrix
    IN  \A r \in 1..Len(m) :
           /\ \E b \in EnabledBanks : \E i \in OffersOf(clean, b) :
                 clean[i].category = m[r].name
           /\ \A j \in 1..Len(m[r].values) :
                 LET cell == m[r].values[j]
                     own  == OffersOf(clean, cell.bank)
                 IN  /\ cell.bank \in EnabledBanks
                     /\ cell.percentage # <<>> =>
                           \E i \in own : /\ clean[i].category = m[r].name
                                          /\ clean[i].percentage = cell.percentage[1]
                     /\ cell.isSelected =>
                           \E i \in own :
                              ToLowerCase(clean[i].category) = ToLowerCase(m[r].name)
                     /\ RenderIsWinner(m[r], cell) =>
                           \E i \in own : clean[i].percentage = cell.percentage[1]

\* On the raw lists without the key separator the matrix is the one computed
\* from the entries of the enabled banks alone.
UnconfiguredBanksWithoutSeparator ==
    NoSeparators =>
        /\ C18_UnconfiguredBanksExcluded
        /\ matrix = MatrixOf(EnabledRaw(data, bankConfigs), bankConfigs)

\* a state in which a bank no alias matches holds the greatest offer of a
\* category that is a row, and the row shows nothing of it
UnconfiguredOfferSeen ==
    LET clean == CleanData(data)
        m     == matrix
    IN  /\ NoSeparators
        /\ \E i \in 1..Len(clean) : \E r \in 1..Len(m) :
              /\ clean[i].bankName \notin Banks
              /\ clean[i].category = m[r].name
              /\ \A j \in 1..Len(m[r].values) :
                    m[r].values[j].percentage # <<clean[i].percentage>>
====
